---- MODULE Spec2Model ----
(***************************************************************************)
(* A model of the spoor logging library (package spoor, package            *)
(* filehandler and package servicehandler).                                *)
(*                                                                         *)
(* Go strings are sequences of one-character strings, so that              *)
(* strings.Replace and fmt.Sprintf work on characters as the library's     *)
(* own calls do.                                                           *)
(***************************************************************************)
EXTENDS Integers, Sequences, FiniteSets, TLC

VARIABLES
    config,     \* the package-level config struct of package spoor
    handlers,   \* the handler objects constructed so far, by identity 1..Len
    logger,     \* the Logger the application logs through
    lastCall,   \* the Log call that has run and not yet returned, else NilPtr
    status,     \* "running", "exited" (os.Exit) or "crashed" (unrecovered panic)
    exitCode,   \* the process's exit status once it is no longer running
    items,      \* loggers.items: name -> Logger identity
    heap,       \* the Logger objects NewLogger allocated, by identity 1..Len
    mutex,      \* the goroutine holding loggers' lock, 0 when it is free
    pc,         \* each goroutine's position in GetLogger
    name,       \* each goroutine's local variable name
    loggername, \* the arguments of each goroutine's GetLogger call
    found,      \* each goroutine's local variable logger (the value it returns)
    calls,      \* how many GetLogger calls each goroutine has made
    returned,   \* every <<loggername, Logger identity>> of a GetLogger call that returned
    fIn,        \* Formatter.Format's receiver
    recIn,      \* Formatter.Format's LogRecord
    nowIn,      \* what time.Now() gives during that Format call
    fOut        \* <<Formatter.Format's result>>, <<>> before the call

mainVars == <<config, handlers, logger, lastCall, status, exitCode>>
regVars == <<items, heap, mutex, pc, name, loggername, found, calls, returned>>
fmtVars == <<fIn, recIn, nowIn, fOut>>
vars == <<mainVars, regVars, fmtVars>>

\* A nil interface value (a sink, a service logger).
Nil == "nil"
\* A nil pointer to a struct.
NilPtr == [nil |-> TRUE]

-----------------------------------------------------------------------------
(* Bounds of the model.                                                    *)

\* Levels passed to Log and SetLevel range over 0..MaxLevelInput: the six
\* predefined levels and one integer beyond FATAL.
MaxLevelInput == 6
\* Handler objects constructed in one run.
MaxHandlers == 2
\* Entries of a logger's handler list.
MaxAttached == 2
\* Pieces a line template is concatenated from (Format's inputs).
MaxPieces == 3
\* Pieces a message is concatenated from (Format's inputs).
MaxMsgPieces == 2
\* GetLogger calls per goroutine.
MaxCalls == 2
\* Goroutines calling GetLogger.
MaxThreads == 2

-----------------------------------------------------------------------------
(* LogLevel                                                                *)

DEBUG == 0
INFO == 1
WARNING == 2
ERROR == 3
CRITICAL == 4
FATAL == 5

LevelInputs == 0..MaxLevelInput

\* func (loglevel LogLevel) String() string
String(loglevel) ==
    CASE loglevel = DEBUG -> <<"D","E","B","U","G">>
      [] loglevel = INFO -> <<"I","N","F","O">>
      [] loglevel = WARNING -> <<"W","A","R","N","I","N","G">>
      [] loglevel = ERROR -> <<"E","R","R","O","R">>
      [] loglevel = CRITICAL -> <<"C","R","I","T","I","C","A","L">>
      [] loglevel = FATAL -> <<"F","A","T","A","L">>
      [] OTHER -> <<"U","N","K","N","O","W","N">>

-----------------------------------------------------------------------------
(* Strings                                                                 *)

LevelnamePlaceholder == <<"{","l","e","v","e","l","n","a","m","e","}">>
MessagePlaceholder == <<"{","m","e","s","s","a","g","e","}">>
AsctimePlaceholder == <<"{","a","s","c","t","i","m","e","}">>

HasPrefix(s, prefix) ==
    /\ Len(prefix) <= Len(s)
    /\ SubSeq(s, 1, Len(prefix)) = prefix

Drop(s, n) == SubSeq(s, n + 1, Len(s))

\* strings.Index: the position of the first occurrence of old in s, 0 for none.
RECURSIVE IndexFrom(_, _, _)
IndexFrom(s, old, i) ==
    IF i + Len(old) - 1 > Len(s) THEN 0
    ELSE IF s[i] = old[1] /\ SubSeq(s, i, i + Len(old) - 1) = old THEN i
    ELSE IndexFrom(s, old, i + 1)

Index(s, old) == IndexFrom(s, old, 1)

\* strings.Replace(s, old, new, n) for n >= 0 and a non-empty old: the first n
\* occurrences, found left to right in what follows the previous replacement.
RECURSIVE Replace(_, _, _, _)
Replace(s, old, new, n) ==
    LET i == Index(s, old)
    IN  IF n = 0 \/ i = 0
        THEN s
        ELSE SubSeq(s, 1, i - 1) \o new
                \o Replace(Drop(s, i + Len(old) - 1), old, new, n - 1)

RECURSIVE Join(_, _)
Join(strs, sep) ==
    IF strs = <<>> THEN <<>>
    ELSE IF Len(strs) = 1 THEN strs[1]
    ELSE strs[1] \o sep \o Join(Tail(strs), sep)

\* fmt.Sprintf's marker for operands no verb consumed: %!(EXTRA string=a, ...)
ExtraMarker(args) ==
    <<"%","!","(","E","X","T","R","A"," ">>
        \o Join([i \in 1..Len(args) |-> <<"s","t","r","i","n","g","=">> \o args[i]],
                <<",", " ">>)
        \o <<")">>

\* fmt.Sprintf(format, args...) with string operands: the verbs %s and %v print
\* the operand, %% prints a percent sign, another verb c prints
\* %!c(string=operand), a verb with no operand left prints %!c(MISSING), a
\* trailing % prints %!(NOVERB), and operands left over are reported at the end.
RECURSIVE Sprintf(_, _)
Sprintf(format, args) ==
    IF format = <<>>
    THEN IF args = <<>> THEN <<>> ELSE ExtraMarker(args)
    ELSE IF Head(format) # "%"
    THEN <<Head(format)>> \o Sprintf(Tail(format), args)
    ELSE IF Len(format) = 1
    THEN <<"%","!","(","N","O","V","E","R","B",")">> \o Sprintf(<<>>, args)
    ELSE LET verb == format[2]
             rest == Drop(format, 2)
         IN  IF verb = "%" THEN <<"%">> \o Sprintf(rest, args)
             ELSE IF args = <<>>
             THEN <<"%","!",verb,"(","M","I","S","S","I","N","G",")">>
                      \o Sprintf(rest, args)
             ELSE IF verb \in {"s", "v"}
             THEN Head(args) \o Sprintf(rest, Tail(args))
             ELSE <<"%","!",verb,"(","s","t","r","i","n","g","=">> \o Head(args)
                      \o <<")">> \o Sprintf(rest, Tail(args))

\* time.Time.Format(layout) for layouts made of the reference time's numeric
\* elements 2006 01 02 15 04 05 and literal text; now holds the instant's
\* fields already rendered to the elements' widths.
RECURSIVE TimeFormat(_, _)
TimeFormat(now, layout) ==
    IF layout = <<>> THEN <<>>
    ELSE IF HasPrefix(layout, <<"2","0","0","6">>)
    THEN now.year \o TimeFormat(now, Drop(layout, 4))
    ELSE IF HasPrefix(layout, <<"0","1">>)
    THEN now.month \o TimeFormat(now, Drop(layout, 2))
    ELSE IF HasPrefix(layout, <<"0","2">>)
    THEN now.day \o TimeFormat(now, Drop(layout, 2))
    ELSE IF HasPrefix(layout, <<"1","5">>)
    THEN now.hour \o TimeFormat(now, Drop(layout, 2))
    ELSE IF HasPrefix(layout, <<"0","4">>)
    THEN now.minute \o TimeFormat(now, Drop(layout, 2))
    ELSE IF HasPrefix(layout, <<"0","5">>)
    THEN now.second \o TimeFormat(now, Drop(layout, 2))
    ELSE <<Head(layout)>> \o TimeFormat(now, Tail(layout))

-----------------------------------------------------------------------------
(* LogRecord and Formatter                                                 *)

\* func NewLogRecord(level, name, msg, args...) *LogRecord
NewLogRecord(level, loggerName, msg, args) ==
    [level |-> level, name |-> loggerName, msg |-> msg, args |-> args]

\* func NewFormatter(params ...string) *Formatter
NewFormatter(params) ==
    [fmt |-> IF Len(params) > 0 THEN params[1] ELSE <<>>,
     dateFmt |-> IF Len(params) > 1 THEN params[2] ELSE <<>>]

\* The message Format renders before it substitutes the placeholders.
RenderedMessage(logRecord) ==
    IF Len(logRecord.args) > 0
    THEN Sprintf(logRecord.msg, logRecord.args)
    ELSE logRecord.msg

\* func (f *Formatter) Format(logRecord *LogRecord) string, with now the value
\* time.Now() returned.
Format(f, logRecord, now) ==
    LET msg == RenderedMessage(logRecord)
        format1 == Replace(f.fmt, LevelnamePlaceholder, String(logRecord.level), 1)
        format2 == Replace(format1, MessagePlaceholder, msg, 1)
    IN  Replace(format2, AsctimePlaceholder, TimeFormat(now, f.dateFmt), 1)

-----------------------------------------------------------------------------
(* Global config                                                           *)

DefaultFormat ==
    LevelnamePlaceholder \o <<":"," ">> \o AsctimePlaceholder \o <<" ","-"," ">>
        \o MessagePlaceholder
DefaultDateFmt == <<"2","0","0","6","-","0","1","-","0","2"," ","1","5",":","0","4",":","0","5">>

\* var config = struct{...}{level: INFO, format: ..., datefmt: ...}
InitialConfig ==
    [filename |-> <<>>, filemode |-> <<>>, format |-> DefaultFormat,
     datefmt |-> DefaultDateFmt, level |-> INFO, stream |-> Nil]

UpperCase == <<"A","B","C","D","E","F","G","H","I","J","K","L","M","N","O","P","Q","R","S","T","U","V","W","X","Y","Z">>
LowerCase == <<"a","b","c","d","e","f","g","h","i","j","k","l","m","n","o","p","q","r","s","t","u","v","w","x","y","z">>

\* strings.ToLower on ASCII text.
ToLower(s) ==
    [i \in 1..Len(s) |->
        IF \E k \in 1..Len(UpperCase) : UpperCase[k] = s[i]
        THEN LowerCase[CHOOSE k \in 1..Len(UpperCase) : UpperCase[k] = s[i]]
        ELSE s[i]]

\* One iteration of BasicConfig's loop: the switch on the lower-cased key.
\* (The values passed have the type each case asserts.)
SetOption(cfg, k, value) ==
    LET key == ToLower(k)
    IN  CASE key = <<"f","i","l","e","n","a","m","e">> -> [cfg EXCEPT !.filename = value]
          [] key = <<"f","i","l","e","m","o","d","e">> -> [cfg EXCEPT !.filemode = value]
          [] key = <<"f","o","r","m","a","t">> -> [cfg EXCEPT !.format = value]
          [] key = <<"d","a","t","e","f","m","t">> -> [cfg EXCEPT !.datefmt = value]
          [] key = <<"s","t","r","e","a","m">> -> [cfg EXCEPT !.stream = value]
          [] OTHER -> cfg

\* func BasicConfig(conf map[string]interface{}), with conf's entries in the
\* order the range loop happens to visit them.
RECURSIVE BasicConfig(_, _)
BasicConfig(cfg, entries) ==
    IF entries = <<>> THEN cfg
    ELSE BasicConfig(SetOption(cfg, Head(entries)[1], Head(entries)[2]), Tail(entries))

\* The orders in which a range loop may visit a map's entries.
RangeOrders(conf) ==
    {order \in [1..Cardinality(conf) -> conf] :
        \A i, j \in 1..Cardinality(conf) : i # j => order[i] # order[j]}

-----------------------------------------------------------------------------
(* Handlers                                                                *)

\* A constructor that takes the package's defaults instead of the config as it
\* is now.
NewLogHandlerFromDefaults(cfg) ==
    [kind |-> "LogHandler",
     level |-> InitialConfig.level,
     formatter |-> NewFormatter(<<InitialConfig.format, InitialConfig.datefmt>>),
     logger |-> Nil,
     service |-> Nil]

\* func NewLogHandler() *LogHandler: level and formatter from the config as it
\* is now; the sink (field logger) is left nil.
NewLogHandler(cfg) ==
    [kind |-> "LogHandler",
     level |-> cfg.level,
     formatter |-> NewFormatter(<<cfg.format, cfg.datefmt>>),
     logger |-> Nil,
     service |-> Nil]

\* func NewStreamHandler(stream ...io.Writer) *StreamHandler
NewStreamHandler(cfg, stream) ==
    [NewLogHandler(cfg) EXCEPT
        !.kind = "StreamHandler",
        !.logger = IF Len(stream) > 0 THEN stream[1] ELSE "os.Stderr"]

\* os.OpenFile(filename, O_CREATE|O_WRONLY|O_APPEND, 0666) with its error
\* discarded: the file, or a nil *os.File when the file cannot be opened.
OpenFile(opens) == IF opens THEN "file" ELSE "nilfile"

\* func NewFileHandler(filename string, mode string) *FileHandler
NewFileHandler(cfg, opens) ==
    [NewStreamHandler(cfg, <<OpenFile(opens)>>) EXCEPT !.kind = "FileHandler"]

\* func NewServiceHandler(service service.Service) *ServiceHandler
NewServiceHandler(cfg, service) ==
    [NewLogHandler(cfg) EXCEPT !.kind = "ServiceHandler", !.service = service]

\* var logger service.Logger of package servicehandler: declared, never assigned.
servicehandlerLogger == Nil

\* Whether Write on the sink returns an error: a closed pipe does, and so does
\* a nil *os.File (os.ErrInvalid).
WriteFails(sink) == sink \in {"pipe", "nilfile"}

\* What a Log call does, in order: a Handle call on the handler at position pos
\* of the logger's list, a method call on a sink, a panic, a call of os.Exit.
Event(ev, pos, handler, target, arg, code) ==
    [ev |-> ev, pos |-> pos, handler |-> handler, target |-> target, arg |-> arg,
     code |-> code]
HandleEvent(pos, handler) == Event("Handle", pos, handler, Nil, <<>>, 0)
SinkEvent(op, target, arg) == Event(op, 0, 0, target, arg, 0)
PanicEvent == Event("panic", 0, 0, Nil, <<>>, 0)
ExitEvent(code) == Event("os.Exit", 0, 0, Nil, <<>>, code)

Panics == [events |-> <<PanicEvent>>, panic |-> TRUE]

\* func (h *LogHandler) Emit(logRecord): fmt.Fprintln(h.logger, h.Format(logRecord)).
\* Format dereferences h.formatter, Fprintln calls h.logger.Write and its
\* result is not looked at.
LogHandlerEmit(h, logRecord, now) ==
    IF h.formatter = NilPtr \/ h.logger = Nil
    THEN Panics
    ELSE [events |->
            <<SinkEvent(IF WriteFails(h.logger) THEN "WriteError" ELSE "Write", h.logger,
                        Format(h.formatter, logRecord, now) \o <<"\n">>)>>,
          panic |-> FALSE]

\* func (h *ServiceHandler) Emit(logRecord): the switch on the record's level,
\* each arm a method call on the package's logger.
ServiceHandlerEmit(h, logRecord, now) ==
    IF h.formatter = NilPtr \/ servicehandlerLogger = Nil
    THEN Panics
    ELSE [events |->
            <<SinkEvent(CASE logRecord.level = WARNING -> "Warning"
                          [] logRecord.level = ERROR -> "Error"
                          [] OTHER -> "Info",
                        servicehandlerLogger, Format(h.formatter, logRecord, now))>>,
          panic |-> FALSE]

\* handler.Handle(logRecord) through ILogHandler: each Handle calls its own Emit.
Handle(h, logRecord, now) ==
    IF h.kind = "ServiceHandler"
    THEN ServiceHandlerEmit(h, logRecord, now)
    ELSE LogHandlerEmit(h, logRecord, now)

-----------------------------------------------------------------------------
(* Logger                                                                  *)

\* func NewLogger(name string) *Logger
NewLogger(loggerName) == [name |-> loggerName, level |-> 0, handlers |-> <<>>]

\* A gate that also consults the logger's own level.
DispatchesAboveLoggerLevel(l, h, level) == level >= l.level /\ level >= h.level

\* The condition of Log's loop body: level >= handler.GetLevel().
Dispatches(l, h, level) == level >= h.level

\* Log's loop over l.handlers from position i on; a panic ends it.
RECURSIVE HandlerLoop(_, _, _, _, _)
HandlerLoop(hs, l, logRecord, now, i) ==
    IF i > Len(l.handlers)
    THEN [events |-> <<>>, panic |-> FALSE]
    ELSE IF ~Dispatches(l, hs[l.handlers[i]], logRecord.level)
    THEN HandlerLoop(hs, l, logRecord, now, i + 1)
    ELSE LET e == Handle(hs[l.handlers[i]], logRecord, now)
             here == <<HandleEvent(i, l.handlers[i])>> \o e.events
         IN  IF e.panic
             THEN [events |-> here, panic |-> TRUE]
             ELSE LET rest == HandlerLoop(hs, l, logRecord, now, i + 1)
                  IN  [events |-> here \o rest.events, panic |-> rest.panic]

\* func (l *Logger) Log(level, msg, args...): the events of the call, in order.
LoggerLog(hs, l, level, msg, args, now) ==
    LET logRecord == NewLogRecord(level, l.name, msg, args)
        loop == HandlerLoop(hs, l, logRecord, now, 1)
    IN  IF loop.panic THEN loop.events
        ELSE IF level = FATAL THEN loop.events \o <<ExitEvent(1)>>
        ELSE loop.events

-----------------------------------------------------------------------------
(* The application: one goroutine configuring handlers and logging.        *)

AltFormat == MessagePlaceholder \o <<"|">> \o AsctimePlaceholder
AltDateFmt == <<"1","5",":","0","4">>

\* The maps passed to BasicConfig, each a set of <<key, value>>.
ConfInputs ==
    << { <<<<"f","o","r","m","a","t">>, AltFormat>>, <<<<"d","a","t","e","f","m","t">>, AltDateFmt>> },
       { <<<<"F","O","R","M","A","T">>, DefaultFormat>>, <<<<"D","a","t","e","F","m","t">>, DefaultDateFmt>> },
       { <<<<"l","e","v","e","l">>, DEBUG>> } >>

\* The arguments NewStreamHandler is called with: none, or a writer whose
\* Write returns an error.
StreamInputs == {<<>>, <<"pipe">>}

\* The pointers SetFormatter is called with.
FormatterInputs == <<NilPtr, NewFormatter(<<AltFormat, AltDateFmt>>)>>

\* Thresholds handlers are set to.
ThresholdInputs == {ERROR}

\* Levels Logger.SetLevel is called with.
LoggerLevelInputs == {ERROR}

\* Messages logged, with their arguments.
LogInputs == {[msg |-> <<"u","p">>, args |-> <<>>]}

\* Values of time.Now().
Instants ==
    {[year |-> <<"2","0","2","6">>, month |-> <<"1","1">>, day |-> <<"0","2">>,
      hour |-> <<"0","9">>, minute |-> <<"3","0">>, second |-> <<"0","7">>]}

MainInit ==
    /\ config = InitialConfig
    /\ handlers = <<>>
    /\ logger = NewLogger("root")
    /\ lastCall = NilPtr
    /\ status = "running"
    /\ exitCode = 0

\* The application is between two calls of the library.
Idle == status = "running" /\ lastCall = NilPtr

Construct(h) ==
    /\ Idle
    /\ Len(handlers) < MaxHandlers
    /\ handlers' = Append(handlers, h)
    /\ lastCall' = NilPtr
    /\ UNCHANGED <<config, logger, status, exitCode, regVars, fmtVars>>

CallBasicConfig ==
    /\ Idle
    /\ \E c \in DOMAIN ConfInputs : \E order \in RangeOrders(ConfInputs[c]) :
          config' = BasicConfig(config, order)
    /\ lastCall' = NilPtr
    /\ UNCHANGED <<handlers, logger, status, exitCode, regVars, fmtVars>>

CallNewLogHandler == Construct(NewLogHandler(config))

CallNewStreamHandler == \E stream \in StreamInputs : Construct(NewStreamHandler(config, stream))

CallNewFileHandler == \E opens \in BOOLEAN : Construct(NewFileHandler(config, opens))

CallNewServiceHandler == Construct(NewServiceHandler(config, "service"))

\* func (h *LogHandler) SetLevel(level LogLevel)
CallSetLevel ==
    /\ Idle
    /\ \E h \in 1..Len(handlers), level \in ThresholdInputs :
          handlers' = [handlers EXCEPT ![h].level = level]
    /\ lastCall' = NilPtr
    /\ UNCHANGED <<config, logger, status, exitCode, regVars, fmtVars>>

\* func (h *LogHandler) SetFormatter(formatter *Formatter)
CallSetFormatter ==
    /\ Idle
    /\ \E h \in 1..Len(handlers), f \in DOMAIN FormatterInputs :
          handlers' = [handlers EXCEPT ![h].formatter = FormatterInputs[f]]
    /\ lastCall' = NilPtr
    /\ UNCHANGED <<config, logger, status, exitCode, regVars, fmtVars>>

\* func (l *Logger) SetLevel(level LogLevel)
CallLoggerSetLevel ==
    /\ Idle
    /\ \E level \in LoggerLevelInputs : logger' = [logger EXCEPT !.level = level]
    /\ lastCall' = NilPtr
    /\ UNCHANGED <<config, handlers, status, exitCode, regVars, fmtVars>>

\* func (l *Logger) AddHandler(handler ILogHandler)
AddHandler(l, handler) == [l EXCEPT !.handlers = Append(l.handlers, handler)]

CallAddHandler ==
    /\ Idle
    /\ Len(logger.handlers) < MaxAttached
    /\ \E h \in 1..Len(handlers) : logger' = AddHandler(logger, h)
    /\ lastCall' = NilPtr
    /\ UNCHANGED <<config, handlers, status, exitCode, regVars, fmtVars>>

\* How a Log call with these events ends: a panic nothing recovers crashes the
\* process (the Go runtime exits with status 2), os.Exit(1) ends it, and
\* otherwise the call returns.
Outcome(events) ==
    IF events = <<>> THEN "running"
    ELSE CASE events[Len(events)].ev = "panic" -> "crashed"
           [] events[Len(events)].ev = "os.Exit" -> "exited"
           [] OTHER -> "running"

CallLog ==
    /\ Idle
    /\ \E level \in LevelInputs, in \in LogInputs, now \in Instants :
          LET events == LoggerLog(handlers, logger, level, in.msg, in.args, now)
          IN  /\ lastCall' = [level |-> level, msg |-> in.msg, args |-> in.args,
                              now |-> now, events |-> events]
              /\ status' = Outcome(events)
              /\ exitCode' = CASE Outcome(events) = "crashed" -> 2
                               [] Outcome(events) = "exited" -> events[Len(events)].code
                               [] OTHER -> 0
    /\ UNCHANGED <<config, handlers, logger, regVars, fmtVars>>

\* Log returns to the application, which keeps nothing of the call.
LogReturns ==
    /\ status = "running"
    /\ lastCall # NilPtr
    /\ lastCall' = NilPtr
    /\ UNCHANGED <<config, handlers, logger, status, exitCode, regVars, fmtVars>>

-----------------------------------------------------------------------------
(* The registry: goroutines calling GetLogger.                             *)

Threads == 1..MaxThreads

\* The argument lists GetLogger is called with.
LoggernameInputs == {<<>>, <<"root">>, <<"app">>}

RegInit ==
    /\ items = [n \in {} |-> 0]
    /\ heap = <<>>
    /\ mutex = 0
    /\ pc = [t \in Threads |-> "idle"]
    /\ name = [t \in Threads |-> "root"]
    /\ loggername = [t \in Threads |-> <<>>]
    /\ found = [t \in Threads |-> 0]
    /\ calls = [t \in Threads |-> 0]
    /\ returned = {}

\* A goroutine calls GetLogger(loggername...).
CallGetLogger(t) ==
    /\ pc[t] = "idle"
    /\ calls[t] < MaxCalls
    /\ \E args \in LoggernameInputs : loggername' = [loggername EXCEPT ![t] = args]
    /\ calls' = [calls EXCEPT ![t] = @ + 1]
    /\ pc' = [pc EXCEPT ![t] = "Lock"]
    /\ UNCHANGED <<items, heap, mutex, name, found, returned, mainVars, fmtVars>>

\* A lock that excludes nobody.
CanLockAlways == TRUE

\* loggers.Lock() returns only while no goroutine holds the lock.
CanLock == mutex = 0

\* loggers.Lock(), then the goroutine's own: name := "root", or loggername[0].
Lock(t) ==
    /\ pc[t] = "Lock"
    /\ CanLock
    /\ mutex' = t
    /\ name' = [name EXCEPT ![t] = IF Len(loggername[t]) = 1 THEN loggername[t][1] ELSE "root"]
    /\ pc' = [pc EXCEPT ![t] = "lookup"]
    /\ UNCHANGED <<items, heap, loggername, found, calls, returned, mainVars, fmtVars>>

\* if logger, ok := loggers.items[name]; ok { return logger }
Lookup(t) ==
    /\ pc[t] = "lookup"
    /\ IF name[t] \in DOMAIN items
       THEN /\ found' = [found EXCEPT ![t] = items[name[t]]]
            /\ pc' = [pc EXCEPT ![t] = "Unlock"]
       ELSE /\ pc' = [pc EXCEPT ![t] = "store"]
            /\ UNCHANGED found
    /\ UNCHANGED <<items, heap, mutex, name, loggername, calls, returned, mainVars, fmtVars>>

\* logger := NewLogger(name); loggers.items[name] = logger; return logger
Store(t) ==
    /\ pc[t] = "store"
    /\ heap' = Append(heap, NewLogger(name[t]))
    /\ items' = [n \in DOMAIN items \cup {name[t]} |->
                    IF n = name[t] THEN Len(heap) + 1 ELSE items[n]]
    /\ found' = [found EXCEPT ![t] = Len(heap) + 1]
    /\ pc' = [pc EXCEPT ![t] = "Unlock"]
    /\ UNCHANGED <<mutex, name, loggername, calls, returned, mainVars, fmtVars>>

\* The deferred loggers.Unlock(), and the call returns its logger.
Unlock(t) ==
    /\ pc[t] = "Unlock"
    /\ mutex' = 0
    /\ returned' = returned \cup {<<loggername[t], found[t]>>}
    /\ pc' = [pc EXCEPT ![t] = "idle"]
    /\ UNCHANGED <<items, heap, name, loggername, found, calls, mainVars, fmtVars>>

-----------------------------------------------------------------------------
(* Formatter.Format on its own.                                            *)

RECURSIVE Concatenations(_, _)
\* The strings concatenated from at most n of the pieces.
Concatenations(pieces, n) ==
    IF n = 0 THEN {<<>>}
    ELSE LET shorter == Concatenations(pieces, n - 1)
         IN  shorter \cup {p \o s : p \in pieces, s \in shorter}

TemplateInputs ==
    Concatenations({LevelnamePlaceholder, MessagePlaceholder, AsctimePlaceholder, <<"-">>},
                   MaxPieces)

MessageInputs ==
    Concatenations({MessagePlaceholder, AsctimePlaceholder, <<"%","s">>, <<"x">>},
                   MaxMsgPieces)

ArgsInputs == {<<>>, << <<"o","k">> >>, <<AsctimePlaceholder>>}

FormatInstants ==
    Instants \cup
    {[year |-> <<"2","0","2","7">>, month |-> <<"0","1">>, day |-> <<"3","1">>,
      hour |-> <<"2","3">>, minute |-> <<"5","9">>, second |-> <<"5","8">>]}

FmtIdle == fIn = NilPtr /\ recIn = NilPtr /\ nowIn = NilPtr /\ fOut = <<>>

FormatInit ==
    /\ fIn \in {NewFormatter(<<t, d>>) : t \in TemplateInputs, d \in {DefaultDateFmt, AltDateFmt}}
    /\ recIn \in {NewLogRecord(level, "root", msg, args) :
                    level \in {ERROR, MaxLevelInput}, msg \in MessageInputs, args \in ArgsInputs}
    /\ nowIn \in FormatInstants
    /\ fOut = <<>>

CallFormat ==
    /\ fOut = <<>>
    /\ fOut' = <<Format(fIn, recIn, nowIn)>>
    /\ UNCHANGED <<fIn, recIn, nowIn, mainVars, regVars>>

-----------------------------------------------------------------------------
(* Specifications                                                          *)

Init == MainInit /\ RegInit /\ FmtIdle

Next ==
    \/ CallBasicConfig
    \/ CallNewLogHandler
    \/ CallNewStreamHandler
    \/ CallNewFileHandler
    \/ CallNewServiceHandler
    \/ CallSetLevel
    \/ CallSetFormatter
    \/ CallLoggerSetLevel
    \/ CallAddHandler
    \/ CallLog
    \/ LogReturns

\* The application's calls, from one goroutine.
Spec == Init /\ [][Next]_vars

NextRegistry ==
    \E t \in Threads :
        \/ CallGetLogger(t)
        \/ Lock(t)
        \/ Lookup(t)
        \/ Store(t)
        \/ Unlock(t)

\* Goroutines calling GetLogger concurrently.
SpecRegistry == Init /\ [][NextRegistry]_vars

InitFormat == MainInit /\ RegInit /\ FormatInit

NextFormat == CallFormat

\* One Format call on each formatter, record and instant of the input sets.
SpecFormat == InitFormat /\ [][NextFormat]_vars

-----------------------------------------------------------------------------
(* Properties                                                              *)

\* The positions of the logger's handler list whose Handle a call invoked, in
\* the order of the calls.
HandledPositions(events) ==
    LET handled == SelectSeq(events, LAMBDA e : e.ev = "Handle")
    IN  [k \in 1..Len(handled) |-> handled[k].pos]

\* The positions of l's handler list whose threshold the level reaches, ascending.
GatedPositions(hs, l, level) ==
    SelectSeq([i \in 1..Len(l.handlers) |-> i],
              LAMBDA i : level >= hs[l.handlers[i]].level)

Range(seq) == {seq[k] : k \in DOMAIN seq}

\* Every handler attached to l came from NewStreamHandler, NewFileHandler or
\* NewServiceHandler and holds a formatter.
Usable(hs, l) ==
    \A i \in 1..Len(l.handlers) :
        /\ hs[l.handlers[i]].kind # "LogHandler"
        /\ hs[l.handlers[i]].formatter # NilPtr

\* A Log call has just run: the step from the application being idle to the
\* call's events.
LogStep == lastCall = NilPtr /\ lastCall' # NilPtr

\* C1: in a Log call of level L, the Handle of the handler at each position of
\* the logger's list is invoked if and only if L >= that handler's threshold.
C1_HandleIffLevelReachesThreshold ==
    (lastCall # NilPtr /\ Usable(handlers, logger)) =>
        \A i \in 1..Len(logger.handlers) :
            i \in Range(HandledPositions(lastCall.events))
                <=> lastCall.level >= handlers[logger.handlers[i]].level

\* The name a GetLogger call asks for: "root" when it passes none.
RequestedName(args) == IF args = <<>> THEN "root" ELSE args[1]

\* C2: whatever the interleaving of GetLogger calls, all calls asking for one
\* name (GetLogger() asks for "root") returned the same Logger, that Logger
\* carries the name, and no two Logger objects carry the same name.
C2_OneLoggerPerName ==
    /\ \A r1, r2 \in returned :
          RequestedName(r1[1]) = RequestedName(r2[1]) => r1[2] = r2[2]
    /\ \A r \in returned :
          r[2] \in 1..Len(heap) /\ heap[r[2]].name = RequestedName(r[1])
    /\ \A i, j \in 1..Len(heap) : heap[i].name = heap[j].name => i = j
    /\ \A n \in DOMAIN items : items[n] \in 1..Len(heap) /\ heap[items[n]].name = n

\* Two goroutines ask for the not yet registered root logger at the same time,
\* one by GetLogger(), one by GetLogger("root"): one is creating it while the
\* other waits for the lock.
C2_Witness ==
    \E t1, t2 \in Threads :
        /\ pc[t1] = "Lock" /\ loggername[t1] = <<>>
        /\ pc[t2] = "store" /\ loggername[t2] = <<"root">>
        /\ "root" \notin DOMAIN items

\* C3: a Log call of level FATAL ends the process with a non-zero status by
\* os.Exit after the Handle of every handler whose threshold the level reaches;
\* a Log call of any other level leaves the process running.
C3_FatalExitsAfterDelivery ==
    (lastCall # NilPtr /\ Usable(handlers, logger)) =>
        LET events == lastCall.events
        IN  IF lastCall.level = FATAL
            THEN /\ status = "exited" /\ exitCode # 0
                 /\ events # <<>> /\ events[Len(events)].ev = "os.Exit"
                 /\ \A i \in Range(GatedPositions(handlers, logger, FATAL)) :
                       \E k \in 1..(Len(events) - 1) :
                           events[k].ev = "Handle" /\ events[k].pos = i
            ELSE status = "running"

\* C4: a handler, when constructed, has the config's level and a formatter of
\* the config's line and time templates as they are at that step, and a step
\* that changes the config changes no existing handler's level or formatter.
C4_ConfigSnapshotAtConstruction ==
    [][/\ \A h \in 1..Len(handlers') :
              h > Len(handlers) =>
                  /\ handlers'[h].level = config.level
                  /\ handlers'[h].formatter = [fmt |-> config.format, dateFmt |-> config.datefmt]
       /\ config' # config =>
              \A h \in 1..Len(handlers) :
                  /\ h <= Len(handlers')
                  /\ handlers'[h].level = handlers[h].level
                  /\ handlers'[h].formatter = handlers[h].formatter]_vars

\* A handler constructed under the default config still has the default
\* templates after BasicConfig changed both, and a handler constructed since
\* has the new ones.
C4_Witness ==
    /\ Len(handlers) = 2
    /\ config.format = AltFormat /\ config.datefmt = AltDateFmt
    /\ handlers[1].formatter = [fmt |-> DefaultFormat, dateFmt |-> DefaultDateFmt]
    /\ handlers[2].formatter = [fmt |-> AltFormat, dateFmt |-> AltDateFmt]
    /\ handlers[2].level = INFO

\* The line a single pass over the template gives: reading the template left to
\* right, the first occurrence of each placeholder becomes its value, and
\* nothing a value brought in is looked at again.
RECURSIVE SinglePass(_, _, _)
SinglePass(template, pending, value) ==
    IF template = <<>> THEN <<>>
    ELSE IF \E p \in pending : HasPrefix(template, p)
    THEN LET p == CHOOSE q \in pending : HasPrefix(template, q)
         IN  value[p] \o SinglePass(Drop(template, Len(p)), pending \ {p}, value)
    ELSE <<Head(template)>> \o SinglePass(Tail(template), pending, value)

Placeholders == {LevelnamePlaceholder, MessagePlaceholder, AsctimePlaceholder}

\* C5: Format's result is the single pass over the line template, whatever text
\* the level name, the rendered message and the rendered time hold.
C5_SinglePassSubstitution ==
    fOut # <<>> =>
        fOut[1] = SinglePass(fIn.fmt, Placeholders,
                             [p \in Placeholders |->
                                 CASE p = LevelnamePlaceholder -> String(recIn.level)
                                   [] p = MessagePlaceholder -> RenderedMessage(recIn)
                                   [] OTHER -> TimeFormat(nowIn, fIn.dateFmt)])

\* C6: a Log call that invoked a handler whose sink's Write fails (a writer
\* returning an error, a file that could not be opened) lets no panic reach
\* its caller, invokes every later handler whose threshold the level reaches,
\* and leaves the handlers and the logger's list as they were.
C6_SinkFailureSwallowed ==
    [][(LogStep /\ Usable(handlers, logger)) =>
          /\ handlers' = handlers /\ logger' = logger
          /\ \A i \in Range(HandledPositions(lastCall'.events)) :
                WriteFails(handlers[logger.handlers[i]].logger) =>
                    /\ \A k \in DOMAIN lastCall'.events : lastCall'.events[k].ev # "panic"
                    /\ \A j \in Range(GatedPositions(handlers, logger, lastCall'.level)) :
                          j > i => j \in Range(HandledPositions(lastCall'.events))]_vars

\* C7: each Handle of a ServiceHandler is followed by exactly one call on the
\* service's logger: Warning for WARNING, Error for ERROR, Info for every other
\* level, with the formatted line.
C7_ServiceSeverityMapping ==
    (lastCall # NilPtr /\ Usable(handlers, logger)) =>
        LET events == lastCall.events
        IN  \A k \in DOMAIN events :
                (events[k].ev = "Handle" /\ handlers[events[k].handler].kind = "ServiceHandler") =>
                    /\ k < Len(events)
                    /\ events[k + 1].ev = CASE lastCall.level = WARNING -> "Warning"
                                            [] lastCall.level = ERROR -> "Error"
                                            [] OTHER -> "Info"
                    /\ events[k + 1].arg =
                          Format(handlers[events[k].handler].formatter,
                                 NewLogRecord(lastCall.level, logger.name, lastCall.msg,
                                              lastCall.args),
                                 lastCall.now)
                    /\ (k + 1 < Len(events) =>
                          events[k + 2].ev \in {"Handle", "os.Exit"})

\* The levels Logger.SetLevel may have left in the logger.
LoggerLevels == {NewLogger("root").level} \cup LoggerLevelInputs

\* C8: what a Log call does is what it would have done had the logger's level
\* been set to any other value: the same handlers are invoked with the same
\* record, in the same order.
C8_LoggerLevelNotConsulted ==
    lastCall # NilPtr =>
        \A level \in LoggerLevels \ {logger.level} :
            LoggerLog(handlers, [logger EXCEPT !.level = level], lastCall.level,
                      lastCall.msg, lastCall.args, lastCall.now) = lastCall.events

\* A record below the logger's own level was handed to a handler.
C8_Witness ==
    /\ lastCall # NilPtr
    /\ lastCall.level < logger.level
    /\ HandledPositions(lastCall.events) # <<>>

\* C9: AddHandler only appends to the logger's list, and a Log call invokes
\* Handle once for each position whose threshold the level reaches, in the
\* list's order (so a handler attached k times is invoked k times).
C9_InsertionOrderDispatch ==
    [][/\ logger'.handlers # logger.handlers =>
              \E h \in 1..Len(handlers) : logger'.handlers = Append(logger.handlers, h)
       /\ (LogStep /\ Usable(handlers, logger)) =>
              HandledPositions(lastCall'.events)
                  = GatedPositions(handlers, logger, lastCall'.level)]_vars

\* C10: every handler constructed holds a formatter.
C10_FormatterNeverAbsent ==
    \A h \in 1..Len(handlers) : handlers[h].formatter # NilPtr

====
